---- MODULE Spec2Model ----
(***************************************************************************)
(* Model of filescanner.py: the FileScanner class (configuration parser,   *)
(* section executor, search routines, report log, configuration rewriter)  *)
(* and the exception handlers of main().                                   *)
(*                                                                         *)
(* Python str values are sequences of one-character strings, so that       *)
(* rstrip/strip/startswith/replace/split/join and the glob match are       *)
(* computed character by character, as the interpreter computes them.      *)
(* A text file is the sequence of its characters, "\n" included.           *)
(*                                                                         *)
(* run is modelled statement by statement wherever a statement changes a   *)
(* file or self.section_examples: each f.write and each log call is a step *)
(* of its own, so that a KeyboardInterrupt can fall between any two of     *)
(* them, up to the closing prints of run.  The report is the sequence of   *)
(* the messages written to it; when the report file lies in the search     *)
(* root, a search walks it too, with the content it has at that moment.    *)
(***************************************************************************)
EXTENDS Integers, Sequences, FiniteSets, TLC

VARIABLES
    config,            \* content of self.config_file (text)
    config0,           \* content of the configuration file before the run
    os_name,           \* platform of the interpreter: "posix" or "nt"
    verbose,           \* self.verbose
    search_root,       \* str(self.search_root)
    tree,              \* the files os.walk(self.search_root) yields, in walk order
    clock,             \* what datetime.now() reads at line 276 and at line 299
    config_at,         \* place of self.config_file in that walk (0: outside the root)
    report_at,         \* place of self.output_file in that walk (0: outside the root)
    opened,            \* run has opened self.output_file for writing
    pc,                \* position of main()/FileScanner.run
    sections,          \* local `sections` of run: result of parse_config
    idx,               \* number of sections the `for section in sections` loop has taken
    section_examples,  \* self.section_examples: section name -> resolved command
    report,            \* content of self.output_file: the sequence of writes
    todo,              \* the log calls the current part of execute_section still makes
    searched,          \* the current execute_section is past its search
    walked,            \* the files the walk of that search yielded
    calls,             \* search routines the current execute_section called
    results,           \* local `results` of the current execute_section
    temp_config,       \* local `temp_config` of update_config_file
    cfgWrites          \* number of times the configuration file was opened for writing

vars == << config, config0, os_name, verbose, search_root, tree, clock, config_at,
           report_at, opened, pc,
           sections, idx, section_examples, report, todo, searched, walked,
           calls, results, temp_config, cfgWrites >>

-----------------------------------------------------------------------------
(* Python str primitives *)

\* str.isspace on one character: the whitespace str.rstrip()/str.strip() remove.
\* Beside the blank and \t \n \r \f these are the controls U+000B, U+001C to
\* U+001F, U+0085 and the no-break space U+00A0, written here as the characters
\* themselves.  The whitespace above U+00FF (U+1680, U+2000 to U+200A, U+2028,
\* U+2029, U+202F, U+205F, U+3000) cannot be written in a string of this
\* language and is outside the alphabet of the model.
IsSpace(c) ==
    c \in { " ", "\t", "\n", "\r", "\f", "", "", "", "", "",
            "", " " }

\* s.rstrip(): s up to its last character that is not whitespace
rstrip(s) ==
    LET solid == { i \in 1..Len(s) : ~IsSpace(s[i]) }
    IN  IF solid = {} THEN <<>>
        ELSE SubSeq(s, 1, CHOOSE i \in solid : \A j \in solid : j <= i)

\* s.lstrip(): s from its first character that is not whitespace
lstrip(s) ==
    LET solid == { i \in 1..Len(s) : ~IsSpace(s[i]) }
    IN  IF solid = {} THEN <<>>
        ELSE SubSeq(s, CHOOSE i \in solid : \A j \in solid : i <= j, Len(s))

strip(s) == lstrip(rstrip(s))

startswith(s, p) == Len(s) >= Len(p) /\ SubSeq(s, 1, Len(p)) = p

endswith(s, p) == Len(s) >= Len(p) /\ SubSeq(s, Len(s) - Len(p) + 1, Len(s)) = p

\* s[n:]
DropPrefix(s, n) == SubSeq(s, n + 1, Len(s))

\* `sub in s`
Contains(s, sub) ==
    \E i \in 1..(Len(s) - Len(sub) + 1) : SubSeq(s, i, i + Len(sub) - 1) = sub

\* s.replace(old, new): every non-overlapping occurrence, left to right
RECURSIVE replace(_, _, _)
replace(s, old, new) ==
    LET at == { i \in 1..(Len(s) - Len(old) + 1) : SubSeq(s, i, i + Len(old) - 1) = old }
    IN  IF at = {} THEN s
        ELSE LET k == CHOOSE i \in at : \A j \in at : i <= j
             IN  SubSeq(s, 1, k - 1) \o new
                 \o replace(DropPrefix(s, k + Len(old) - 1), old, new)

\* sep.join(items)
RECURSIVE join(_, _)
join(sep, items) ==
    IF items = <<>> THEN <<>>
    ELSE IF Len(items) = 1 THEN items[1]
    ELSE items[1] \o sep \o join(sep, Tail(items))

\* s.split(c) for a one-character separator
RECURSIVE split(_, _)
split(s, c) ==
    IF \A i \in 1..Len(s) : s[i] # c THEN <<s>>
    ELSE LET k == CHOOSE i \in 1..Len(s) : s[i] = c /\ \A j \in 1..(i - 1) : s[j] # c
         IN  <<SubSeq(s, 1, k - 1)>> \o split(DropPrefix(s, k), c)

\* open(path, 'r') reads in text mode with universal newlines: "\r\n" and a
\* lone "\r" reach the program as "\n"
ReadText(content) ==
    LET n    == Len(content)
        kept == SelectSeq([i \in 1..n |-> i],
                          LAMBDA i : ~(content[i] = "\r" /\ i < n /\ content[i + 1] = "\n"))
    IN  [k \in 1..Len(kept) |->
            IF content[kept[k]] = "\r" THEN "\n" ELSE content[kept[k]]]

RECURSIVE SplitLines(_)
SplitLines(text) ==
    IF text = <<>> THEN <<>>
    ELSE IF \A i \in 1..Len(text) : text[i] # "\n" THEN <<text>>
    ELSE LET k == CHOOSE i \in 1..Len(text) :
                      text[i] = "\n" /\ \A j \in 1..(i - 1) : text[j] # "\n"
         IN  <<SubSeq(text, 1, k)>> \o SplitLines(DropPrefix(text, k))

\* iterating a text file: the lines, each with its terminating "\n" when it has one
FileLines(content) == SplitLines(ReadText(content))

\* Texts are over the characters up to U+00FF, the ones a string of a module
\* can hold.

\* string.ascii_uppercase and string.ascii_lowercase
UpperCase == <<"A","B","C","D","E","F","G","H","I","J","K","L","M",
               "N","O","P","Q","R","S","T","U","V","W","X","Y","Z">>
LowerCase == <<"a","b","c","d","e","f","g","h","i","j","k","l","m",
               "n","o","p","q","r","s","t","u","v","w","x","y","z">>

\* the other cased letters up to U+00FF whose other case lies there too
Latin1Upper == <<"À","Á","Â","Ã","Ä","Å","Æ","Ç","È","É","Ê","Ë","Ì","Í","Î",
                "Ï","Ð","Ñ","Ò","Ó","Ô","Õ","Ö","Ø","Ù","Ú","Û","Ü","Ý","Þ">>
Latin1Lower == <<"à","á","â","ã","ä","å","æ","ç","è","é","ê","ë","ì","í","î",
                "ï","ð","ñ","ò","ó","ô","õ","ö","ø","ù","ú","û","ü","ý","þ">>

\* the lower case of a character, as str.lower gives it and as re.IGNORECASE
\* compares
LowerOf ==
    [c \in { UpperCase[i] : i \in 1..Len(UpperCase) }
            \cup { Latin1Upper[i] : i \in 1..Len(Latin1Upper) } |->
        IF \E i \in 1..Len(UpperCase) : UpperCase[i] = c
        THEN LowerCase[CHOOSE i \in 1..Len(UpperCase) : UpperCase[i] = c]
        ELSE Latin1Lower[CHOOSE i \in 1..Len(Latin1Upper) : Latin1Upper[i] = c]]

LowerChar(c) == IF c \in DOMAIN LowerOf THEN LowerOf[c] ELSE c

lower(s) == [i \in 1..Len(s) |-> LowerChar(s[i])]

\* str(n) for n >= 0
Digits == <<"0","1","2","3","4","5","6","7","8","9">>

RECURSIVE str(_)
str(n) == IF n < 10 THEN <<Digits[n + 1]>> ELSE str(n \div 10) \o <<Digits[(n % 10) + 1]>>

\* a dict with d[key] = value set
DictSet(d, key, value) ==
    [k \in DOMAIN d \cup {key} |-> IF k = key THEN value ELSE d[k]]

EmptyDict == [k \in {} |-> k]

-----------------------------------------------------------------------------
(* FileScanner.parse_list *)

parse_list(value) ==
    IF value = <<>> THEN <<>>
    ELSE LET items == split(value, ",")
         IN  [i \in 1..Len(items) |-> strip(items[i])]

(* FileScanner.parse_config: the loop body on one line, as a step on the
   pair (sections, current_section) *)

IsHeader(line) == startswith(line, <<"[">>) /\ endswith(line, <<"]">>)

NewSection(line) ==
    [name |-> SubSeq(line, 2, Len(line) - 1), command |-> <<>>,
     keywords |-> <<>>, extensions |-> <<>>, files |-> <<>>]

ParseLine(st, raw) ==
    LET line == rstrip(raw) IN
    IF line = <<>> \/ startswith(line, <<"#">>) THEN st
    ELSE IF IsHeader(line) THEN
        [secs |-> IF DOMAIN st.cur # {} THEN Append(st.secs, st.cur) ELSE st.secs,
         cur  |-> NewSection(line)]
    ELSE IF startswith(line, <<"C","o","m","m","a","n","d",":"," ">>) THEN
        [st EXCEPT !.cur = DictSet(@, "command", strip(DropPrefix(line, 9)))]
    ELSE IF startswith(line, <<"E","x","a","m","p","l","e",":"," ">>) THEN st
    ELSE IF startswith(line, <<"K","e","y","w","o","r","d","s",":"," ">>) THEN
        [st EXCEPT !.cur = DictSet(@, "keywords", parse_list(DropPrefix(line, 10)))]
    ELSE IF startswith(line, <<"E","x","t","e","n","s","i","o","n","s",":"," ">>) THEN
        [st EXCEPT !.cur = DictSet(@, "extensions", parse_list(DropPrefix(line, 12)))]
    ELSE IF startswith(line, <<"F","i","l","e","s",":"," ">>) THEN
        [st EXCEPT !.cur = DictSet(@, "files", parse_list(DropPrefix(line, 7)))]
    ELSE st

RECURSIVE ParseLines(_, _)
ParseLines(st, lines) ==
    IF lines = <<>> THEN st ELSE ParseLines(ParseLine(st, lines[1]), Tail(lines))

parse_config(text) ==
    LET st == ParseLines([secs |-> <<>>, cur |-> EmptyDict], FileLines(text))
    IN  IF DOMAIN st.cur # {} THEN Append(st.secs, st.cur) ELSE st.secs

-----------------------------------------------------------------------------
(* FileScanner.update_config_file: the read loop, as a step on the pair
   (temp_config, current_section); current_section is None before any header *)

\* A Python variable that holds None or a value (a string, a list): None and
\* the values are kept apart by the field none, so that no string and no list
\* is taken for None.
None == [none |-> TRUE, value |-> <<>>]

Value(x) == [none |-> FALSE, value |-> x]

RewriteLine(st, raw, examples) ==
    LET line == rstrip(raw) IN
    IF IsHeader(line) THEN
        [out |-> Append(st.out, line), cur |-> Value(SubSeq(line, 2, Len(line) - 1))]
    ELSE IF startswith(line, <<"E","x","a","m","p","l","e",":"," ">>) THEN
        IF ~st.cur.none /\ st.cur.value \in DOMAIN examples
        THEN [st EXCEPT !.out = Append(@, <<"E","x","a","m","p","l","e",":"," ">> \o examples[st.cur.value])]
        ELSE [st EXCEPT !.out = Append(@, line)]
    ELSE [st EXCEPT !.out = Append(@, line)]

RECURSIVE RewriteLines(_, _, _)
RewriteLines(st, lines, examples) ==
    IF lines = <<>> THEN st
    ELSE RewriteLines(RewriteLine(st, lines[1], examples), Tail(lines), examples)

\* temp_config after the read loop
RewrittenLines(text, examples) ==
    RewriteLines([out |-> <<>>, cur |-> None], FileLines(text), examples).out

\* the text written back: '\n'.join(temp_config) + '\n'
RewrittenText(lines) == join(<<"\n">>, lines) \o <<"\n">>

-----------------------------------------------------------------------------
(* Truth value of a Python list argument: None and [] are both false *)

Truthy(x) == ~x.none /\ x.value # <<>>

(* fnmatch.fnmatch(name, pat): both are passed through os.path.normcase, then
   matched as a shell glob by fnmatch.fnmatchcase.  posixpath.normcase returns
   its argument; ntpath.normcase lower-cases it and turns "/" into "\".
   The glob is modelled for literals, "?" and "*"; names and patterns drawn
   below hold no "[". *)

normcase(os, s) ==
    IF os = "nt"
    THEN [i \in 1..Len(s) |-> IF s[i] = "/" THEN "\\" ELSE LowerChar(s[i])]
    ELSE s

RECURSIVE fnmatchcase(_, _)
fnmatchcase(name, pat) ==
    IF pat = <<>> THEN name = <<>>
    ELSE IF pat[1] = "*" THEN
        fnmatchcase(name, Tail(pat)) \/ (name # <<>> /\ fnmatchcase(Tail(name), pat))
    ELSE IF pat[1] = "?" THEN name # <<>> /\ fnmatchcase(Tail(name), Tail(pat))
    ELSE name # <<>> /\ name[1] = pat[1] /\ fnmatchcase(Tail(name), Tail(pat))

fnmatch(os, name, pat) == fnmatchcase(normcase(os, name), normcase(os, pat))

\* any(fnmatch.fnmatch(file, p) for p in patterns)
AnyMatch(os, name, patterns) ==
    \E i \in 1..Len(patterns) : fnmatch(os, name, patterns[i])

(* re.search(pattern, line, re.IGNORECASE).  The pattern is read as the re
   module reads it: a sequence of tokens, a token being one character or a
   backslash with the character after it.  The language modelled:
   alternatives separated by "|"; an alternative is a sequence of items; an
   item is an assertion (^ $ \A \Z \b \B) or an atom, optionally followed by
   one of * + ? and then by the "?" of a lazy repeat.  The atoms are a
   literal character, ".", the escapes \a \f \n \r \t \v, the classes
   \d \D \s \S \w \W, and a backslash before a character that is neither an
   ASCII letter nor a digit, which stands for that character.  A pattern of
   these tokens that re.compile rejects (a repeat with nothing to repeat, a
   repeat of a repeat, a backslash before another ASCII letter or at the end)
   makes re.search raise re.error: CompileError gives its message.
   Letter case is ignored as IGNORECASE ignores it among the characters up
   to U+00FF (LowerChar); \d \s \w \b are the Unicode classes restricted to
   those characters.
   Groups, character sets, counted repeats, possessive repeats (whose reading
   depends on the Python version), back-references and \x \u \U \N escapes
   are outside this language: InPatternLanguage tells, and the keywords of
   the initial states are drawn inside it. *)

IsDigit(c) == \E i \in 1..Len(Digits) : Digits[i] = c

\* the ASCII letters (the ones a backslash makes an escape of)
IsLetter(c) ==
    \E i \in 1..Len(UpperCase) : UpperCase[i] = c \/ LowerCase[i] = c

\* the letters and numeric characters from U+0080 to U+00FF
Latin1Word ==
    { "ª","²","³","µ","¹","º","¼","½","¾","À","Á","Â","Ã","Ä","Å",
      "Æ","Ç","È","É","Ê","Ë","Ì","Í","Î","Ï","Ð","Ñ","Ò","Ó","Ô",
      "Õ","Ö","Ø","Ù","Ú","Û","Ü","Ý","Þ","ß","à","á","â","ã","ä",
      "å","æ","ç","è","é","ê","ë","ì","í","î","ï","ð","ñ","ò","ó",
      "ô","õ","ö","ø","ù","ú","û","ü","ý","þ","ÿ" }

\* what \w matches: the alphanumeric characters and the underscore
IsWord(c) == IsLetter(c) \/ IsDigit(c) \/ c = "_" \/ c \in Latin1Word

\* the number of backslashes that immediately precede position i
BackslashRun(p, i) ==
    CHOOSE n \in 0..(i - 1) :
        /\ \A j \in (i - n)..(i - 1) : p[j] = "\\"
        /\ n = i - 1 \/ p[i - n - 1] # "\\"

\* the "|" that separate alternatives
Bars(p) == { i \in 1..Len(p) : p[i] = "|" /\ BackslashRun(p, i) % 2 = 0 }

Alternatives(p) ==
    LET ends == Bars(p) \cup { Len(p) + 1 }
    IN  { SubSeq(p, s, (CHOOSE e \in ends : e >= s /\ \A f \in ends : f >= s => e <= f) - 1) :
              s \in { 1 } \cup { b + 1 : b \in Bars(p) } }

PlainAtom(c) ==
    CASE c = "." -> [kind |-> "any", ch |-> c]
      [] c = "^" -> [kind |-> "start", ch |-> c]
      [] c = "$" -> [kind |-> "end-or-newline", ch |-> c]
      [] OTHER   -> [kind |-> "char", ch |-> c]

EscapeAtom(e) ==
    CASE e = "a" -> [kind |-> "char", ch |-> ""]
      [] e = "f" -> [kind |-> "char", ch |-> "\f"]
      [] e = "n" -> [kind |-> "char", ch |-> "\n"]
      [] e = "r" -> [kind |-> "char", ch |-> "\r"]
      [] e = "t" -> [kind |-> "char", ch |-> "\t"]
      [] e = "v" -> [kind |-> "char", ch |-> ""]
      [] e = "d" -> [kind |-> "digit", ch |-> e]
      [] e = "D" -> [kind |-> "non-digit", ch |-> e]
      [] e = "s" -> [kind |-> "space", ch |-> e]
      [] e = "S" -> [kind |-> "non-space", ch |-> e]
      [] e = "w" -> [kind |-> "word", ch |-> e]
      [] e = "W" -> [kind |-> "non-word", ch |-> e]
      [] e = "A" -> [kind |-> "start", ch |-> e]
      [] e = "Z" -> [kind |-> "end", ch |-> e]
      [] e = "b" -> [kind |-> "boundary", ch |-> e]
      [] e = "B" -> [kind |-> "non-boundary", ch |-> e]
      [] OTHER   -> [kind |-> "char", ch |-> e]

Assertions == { "start", "end", "end-or-newline", "boundary", "non-boundary" }

Repeats == { "*", "+", "?" }

EscapeLetters ==
    { "a", "f", "n", "r", "t", "v", "d", "D", "s", "S", "w", "W", "A", "Z", "b", "B" }

\* the items of one alternative of a pattern re.compile accepts, from position
\* i on
RECURSIVE ParseItems(_, _)
ParseItems(a, i) ==
    IF i > Len(a) THEN <<>>
    ELSE LET esc  == a[i] = "\\" /\ i < Len(a)
             n    == IF esc THEN 2 ELSE 1
             atom == IF esc THEN EscapeAtom(a[i + 1]) ELSE PlainAtom(a[i])
             rep  == i + n <= Len(a) /\ a[i + n] \in Repeats
             lazy == rep /\ i + n + 1 <= Len(a) /\ a[i + n + 1] = "?"
         IN  << [atom |-> atom, repeat |-> IF rep THEN a[i + n] ELSE "1"] >>
             \o ParseItems(a, i + n + (IF rep THEN 1 ELSE 0) + (IF lazy THEN 1 ELSE 0))

\* the tokens of a pattern with their 0-based positions
RECURSIVE Tokens(_, _)
Tokens(p, i) ==
    IF i > Len(p) THEN <<>>
    ELSE LET n == IF p[i] = "\\" /\ i < Len(p) THEN 2 ELSE 1
         IN  << [at |-> i - 1, text |-> SubSeq(p, i, i + n - 1)] >> \o Tokens(p, i + n)

InPatternLanguage(pattern) ==
    LET ts == Tokens(pattern, 1)
    IN  \A k \in 1..Len(ts) :
            LET t == ts[k].text
            IN  /\ Len(t) = 1 => t[1] \notin { "(", ")", "[", "]", "{", "}" }
                /\ Len(t) = 2 => ~IsDigit(t[2]) /\ t[2] \notin { "x", "u", "U", "N" }
                /\ k < Len(ts) /\ Len(t) = 1 /\ t[1] \in Repeats => ts[k + 1].text # <<"+">>

\* str(e) of the re.error raised for the pattern
ErrorText(msg, at) == msg \o <<" ","a","t"," ","p","o","s","i","t","i","o","n"," ">> \o str(at)

\* the error re.compile raises reading the tokens from the k-th on (the empty
\* text: none);
\* prev tells what the item before is.  The tokenizer reads one token ahead,
\* so a backslash that ends the pattern is reported when the token before it
\* is taken.
RECURSIVE ErrorFrom(_, _, _, _)
ErrorFrom(pattern, ts, k, prev) ==
    IF k > Len(ts) THEN <<>>
    ELSE LET t        == ts[k].text
             dangling(j) == j <= Len(ts) /\ ts[j].text = <<"\\">>
             at_end   == ErrorText(<<"b","a","d"," ","e","s","c","a","p","e"," ","(","e","n","d"," ","o","f"," ","p","a","t","t","e","r","n",")">>, Len(pattern) - 1)
             lazy     == k < Len(ts) /\ ts[k + 1].text = <<"?">>
         IN  IF dangling(k) \/ dangling(k + 1) THEN at_end
             ELSE IF t = <<"|">> THEN ErrorFrom(pattern, ts, k + 1, "none")
             ELSE IF Len(t) = 2 THEN
                 IF IsLetter(t[2]) /\ t[2] \notin EscapeLetters
                 THEN ErrorText(<<"b","a","d"," ","e","s","c","a","p","e"," ">> \o t, ts[k].at)
                 ELSE ErrorFrom(pattern, ts, k + 1,
                                IF EscapeAtom(t[2]).kind \in Assertions THEN "at" ELSE "atom")
             ELSE IF t[1] \in Repeats THEN
                 IF prev \in { "none", "at" } THEN ErrorText(<<"n","o","t","h","i","n","g"," ","t","o"," ","r","e","p","e","a","t">>, ts[k].at)
                 ELSE IF prev = "repeat" THEN ErrorText(<<"m","u","l","t","i","p","l","e"," ","r","e","p","e","a","t">>, ts[k].at)
                 ELSE IF lazy
                      THEN (IF dangling(k + 2) THEN at_end
                            ELSE ErrorFrom(pattern, ts, k + 2, "repeat"))
                      ELSE ErrorFrom(pattern, ts, k + 1, "repeat")
             ELSE ErrorFrom(pattern, ts, k + 1,
                            IF PlainAtom(t[1]).kind \in Assertions THEN "at" ELSE "atom")

CompileError(pattern) == ErrorFrom(pattern, Tokens(pattern, 1), 1, "none")

\* one character against an atom, letter case ignored
AtomMatches(atom, c) ==
    CASE atom.kind = "char"      -> LowerChar(atom.ch) = LowerChar(c)
      [] atom.kind = "any"       -> c # "\n"
      [] atom.kind = "digit"     -> IsDigit(c)
      [] atom.kind = "non-digit" -> ~IsDigit(c)
      [] atom.kind = "space"     -> IsSpace(c)
      [] atom.kind = "non-space" -> ~IsSpace(c)
      [] atom.kind = "word"      -> IsWord(c)
      [] atom.kind = "non-word"  -> ~IsWord(c)
      [] OTHER                   -> FALSE

\* an assertion at position pos of the line (pos = Len(line) + 1: the end)
AssertionHolds(kind, line, pos) ==
    LET before == pos > 1 /\ IsWord(line[pos - 1])
        after  == pos <= Len(line) /\ IsWord(line[pos])
    IN  CASE kind = "start"          -> pos = 1
          [] kind = "end"            -> pos = Len(line) + 1
          [] kind = "end-or-newline" ->
                 pos = Len(line) + 1 \/ (pos = Len(line) /\ line[pos] = "\n")
          [] kind = "boundary"       -> before # after
          [] kind = "non-boundary"   -> before = after
          [] OTHER                   -> FALSE

\* the items from the k-th on match the line from position pos on
RECURSIVE MatchFrom(_, _, _, _)
MatchFrom(items, k, line, pos) ==
    IF k > Len(items) THEN TRUE
    ELSE LET atom == items[k].atom
             rep  == items[k].repeat
             here == pos <= Len(line) /\ AtomMatches(atom, line[pos])
         IN  IF atom.kind \in Assertions
             THEN AssertionHolds(atom.kind, line, pos) /\ MatchFrom(items, k + 1, line, pos)
             ELSE CASE rep = "1" -> here /\ MatchFrom(items, k + 1, line, pos + 1)
                    [] rep = "?" -> \/ MatchFrom(items, k + 1, line, pos)
                                    \/ here /\ MatchFrom(items, k + 1, line, pos + 1)
                    [] rep = "*" -> \/ MatchFrom(items, k + 1, line, pos)
                                    \/ here /\ MatchFrom(items, k, line, pos + 1)
                    [] OTHER     -> here /\ \/ MatchFrom(items, k + 1, line, pos + 1)
                                            \/ MatchFrom(items, k, line, pos + 1)

\* the value of re.search for a pattern re.compile accepts
re_search(pattern, line) ==
    \E a \in Alternatives(pattern) :
        LET items == ParseItems(a, 1)
        IN  \E pos \in 1..(Len(line) + 1) : MatchFrom(items, 1, line, pos)

(* str(Path(root) / file): pathlib parses root into an anchor and components,
   dropping empty and "." components, and joins them with the separator of the
   platform.  On posix the anchor is "/" for a leading slash, "//" for exactly
   two.  On nt "/" is a separator too; drive letters and UNC shares are not
   told apart from ordinary components here. *)
PathSep(os) == IF os = "nt" THEN <<"\\">> ELSE <<"/">>

PathAnchor(os, p) ==
    LET sep == PathSep(os) IN
    IF os = "posix" /\ startswith(p, sep \o sep) /\ ~startswith(p, sep \o sep \o sep)
    THEN sep \o sep
    ELSE IF startswith(p, sep) THEN sep
    ELSE <<>>

PathParts(os, p) ==
    SelectSeq(split(p, PathSep(os)[1]), LAMBDA part : part # <<>> /\ part # <<".">>)

\* os.path.join(top, d) of os.walk: the directory a file is reported in
WalkRoot(os, top, d) ==
    IF d = <<>> THEN top
    ELSE IF endswith(top, PathSep(os)) THEN top \o d
    ELSE top \o PathSep(os) \o d

FilePath(os, f) ==
    LET root == IF os = "nt" THEN replace(f.root, <<"/">>, <<"\\">>) ELSE f.root
    IN  PathAnchor(os, root)
        \o join(PathSep(os), PathParts(os, root) \o << f.name >>)

(* A file of the tree: root (the directory os.walk reports), name, content,
   open_fails (open raises PermissionError/OSError), read_fails_at (0: reads
   never fail; k > 0: reading raises OSError when line k is requested). *)

\* grep_files, lines 57-63: the results one file contributes
RECURSIVE GrepLines(_, _, _, _, _)
GrepLines(path, lines, n, stop, pattern) ==
    IF n > Len(lines) \/ n = stop THEN <<>>
    ELSE (IF re_search(pattern, lines[n])
          THEN << path \o <<":">> \o str(n) \o <<":">> \o rstrip(lines[n]) >>
          ELSE <<>>)
         \o GrepLines(path, lines, n + 1, stop, pattern)

GrepFile(os, f, pattern) ==
    IF f.open_fails THEN <<>>
    ELSE GrepLines(FilePath(os, f), FileLines(f.content), 1, f.read_fails_at, pattern)

\* re.search is called, and raises for a pattern re.compile rejects, on the
\* first line the walk reads: the handler of line 64 ends the walk
grep_raises(os, files, pattern, extensions) ==
    /\ CompileError(pattern) # <<>>
    /\ \E i \in 1..Len(files) :
           /\ Truthy(extensions) => AnyMatch(os, files[i].name, extensions.value)
           /\ ~files[i].open_fails
           /\ files[i].read_fails_at # 1
           /\ FileLines(files[i].content) # <<>>

\* lines 64-66: what the handler logs
grep_log(os, files, pattern, extensions, v) ==
    IF v /\ grep_raises(os, files, pattern, extensions)
    THEN << <<"E","r","r","o","r"," ","d","u","r","i","n","g"," ","g","r","e","p",":"," ">> \o CompileError(pattern) >>
    ELSE <<>>

\* variant of grep_files in which the first file whose open or read raises ends
\* the walk (the error reaches the handler of line 64)
RECURSIVE grep_files_abort(_, _, _, _)
grep_files_abort(os, files, pattern, extensions) ==
    IF files = <<>> \/ CompileError(pattern) # <<>> THEN <<>>
    ELSE IF Truthy(extensions) /\ ~AnyMatch(os, files[1].name, extensions.value)
         THEN grep_files_abort(os, Tail(files), pattern, extensions)
    ELSE IF files[1].open_fails \/ files[1].read_fails_at > 0
         THEN GrepFile(os, files[1], pattern)
    ELSE GrepFile(os, files[1], pattern)
         \o grep_files_abort(os, Tail(files), pattern, extensions)

\* the results grep_files returns; with a pattern re.compile rejects none is
\* appended before the error ends the walk
RECURSIVE grep_files(_, _, _, _)
grep_files(os, files, pattern, extensions) ==
    IF files = <<>> \/ CompileError(pattern) # <<>> THEN <<>>
    ELSE (IF Truthy(extensions) /\ ~AnyMatch(os, files[1].name, extensions.value)
          THEN <<>>
          ELSE GrepFile(os, files[1], pattern))
         \o grep_files(os, Tail(files), pattern, extensions)

\* variant of FindFile that appends the path once per matching name pattern
FindFilePerPattern(os, f, patterns, name_patterns) ==
    IF Truthy(patterns) /\ AnyMatch(os, f.name, patterns.value) THEN << FilePath(os, f) >>
    ELSE IF Truthy(name_patterns)
         THEN LET hits == SelectSeq(name_patterns.value, LAMBDA p : fnmatch(os, f.name, p))
              IN  [i \in 1..Len(hits) |-> FilePath(os, f)]
    ELSE <<>>

\* find_files, lines 82-94: the results one file contributes
FindFile(os, f, patterns, name_patterns) ==
    IF Truthy(patterns) /\ AnyMatch(os, f.name, patterns.value) THEN << FilePath(os, f) >>
    ELSE IF Truthy(name_patterns) /\ AnyMatch(os, f.name, name_patterns.value)
         THEN << FilePath(os, f) >>
    ELSE <<>>

RECURSIVE find_files(_, _, _, _)
find_files(os, files, patterns, name_patterns) ==
    IF files = <<>> THEN <<>>
    ELSE FindFile(os, files[1], patterns, name_patterns)
         \o find_files(os, Tail(files), patterns, name_patterns)

\* the file open(filepath) opens
FileAt(os, files, path) ==
    files[CHOOSE i \in 1..Len(files) : FilePath(os, files[i]) = path]

\* find_and_cat_files, lines 107-114: the results one found path contributes
CatFile(os, files, path) ==
    LET f == FileAt(os, files, path) IN
    IF f.open_fails \/ f.read_fails_at > 0 THEN <<>>
    ELSE IF strip(ReadText(f.content)) # <<>>
         THEN << <<"=","=","="," ">> \o path \o <<" ","=","=","=">>, ReadText(f.content) >>
    ELSE <<>>

RECURSIVE CatFiles(_, _, _)
CatFiles(os, files, paths) ==
    IF paths = <<>> THEN <<>>
    ELSE CatFile(os, files, paths[1]) \o CatFiles(os, files, Tail(paths))

find_and_cat_files(os, files, name_patterns) ==
    CatFiles(os, files, find_files(os, files, None, Value(name_patterns)))

-----------------------------------------------------------------------------
(* FileScanner.build_actual_command *)

\* ' '.join([f'--include="{ext}"' for ext in extensions])
IncludeFlags(extensions) ==
    join(<<" ">>, [i \in 1..Len(extensions) |-> <<"-","-","i","n","c","l","u","d","e","=","\"">> \o extensions[i] \o <<"\"">>])

\* '\\( ' + ' -o '.join([f'-name "{p}"' for p in patterns]) + ' \\)'
NameFlags(patterns) ==
    <<"\\","("," ">>
    \o join(<<" ","-","o"," ">>, [i \in 1..Len(patterns) |-> <<"-","n","a","m","e"," ","\"">> \o patterns[i] \o <<"\"">>])
    \o <<" ","\\",")">>

SubstKeywords(command, keywords) ==
    IF keywords # <<>> /\ Contains(command, <<"K","E","Y","W","O","R","D","S">>)
    THEN replace(command, <<"K","E","Y","W","O","R","D","S">>, join(<<"|">>, keywords))
    ELSE command

SubstExtensions(command, extensions) ==
    IF extensions # <<>> /\ Contains(command, <<"E","X","T","E","N","S","I","O","N","S">>)
    THEN IF Contains(command, <<"g","r","e","p">>)
         THEN replace(command, <<"E","X","T","E","N","S","I","O","N","S">>, IncludeFlags(extensions))
         ELSE IF Contains(command, <<"f","i","n","d">>)
         THEN replace(command, <<"E","X","T","E","N","S","I","O","N","S">>, NameFlags(extensions))
         ELSE command
    ELSE command

SubstFiles(command, files) ==
    IF files # <<>> /\ Contains(command, <<"F","I","L","E","S">>)
    THEN replace(command, <<"F","I","L","E","S">>, NameFlags(files))
    ELSE command

build_actual_command(command, keywords, extensions, files) ==
    SubstFiles(SubstExtensions(SubstKeywords(command, keywords), extensions), files)

\* line 155: actual_command.replace('\\\\', '\\')
StoredExample(actual_command) == replace(actual_command, <<"\\","\\">>, <<"\\">>)

-----------------------------------------------------------------------------
(* FileScanner.execute_section *)

\* variant of Dispatch that tests the locate-and-dump markers before the
\* content-search marker
DispatchDumpFirst(os, files_of_tree, sec) ==
    IF Contains(sec.command, <<"f","i","n","d">>) /\ Contains(sec.command, <<"-","e","x","e","c"," ","c","a","t">>) THEN
        [calls   |-> << "find_and_cat_files" >>,
         results |-> find_and_cat_files(os, files_of_tree,
                                        IF sec.files # <<>> THEN sec.files ELSE sec.extensions)]
    ELSE IF Contains(sec.command, <<"g","r","e","p">>) THEN
        IF sec.keywords # <<>>
        THEN [calls   |-> << "grep_files" >>,
              results |-> grep_files(os, files_of_tree, join(<<"|">>, sec.keywords),
                                     IF sec.extensions # <<>> THEN Value(sec.extensions) ELSE None)]
        ELSE [calls |-> <<>>, results |-> <<>>]
    ELSE IF Contains(sec.command, <<"f","i","n","d">>) THEN
        IF sec.extensions # <<>>
        THEN [calls   |-> << "find_files" >>,
              results |-> find_files(os, files_of_tree, Value(sec.extensions), None)]
        ELSE IF sec.files # <<>>
        THEN [calls   |-> << "find_files" >>,
              results |-> find_files(os, files_of_tree, None, Value(sec.files))]
        ELSE [calls |-> <<>>, results |-> <<>>]
    ELSE [calls |-> <<>>, results |-> <<>>]

\* lines 166-184: the search routine called and the results it returns
Dispatch(os, files_of_tree, sec) ==
    IF Contains(sec.command, <<"g","r","e","p">>) THEN
        IF sec.keywords # <<>>
        THEN [calls   |-> << "grep_files" >>,
              results |-> grep_files(os, files_of_tree, join(<<"|">>, sec.keywords),
                                     IF sec.extensions # <<>> THEN Value(sec.extensions) ELSE None)]
        ELSE [calls |-> <<>>, results |-> <<>>]
    ELSE IF Contains(sec.command, <<"f","i","n","d">>) /\ Contains(sec.command, <<"-","e","x","e","c"," ","c","a","t">>) THEN
        [calls   |-> << "find_and_cat_files" >>,
         results |-> find_and_cat_files(os, files_of_tree,
                                        IF sec.files # <<>> THEN sec.files ELSE sec.extensions)]
    ELSE IF Contains(sec.command, <<"f","i","n","d">>) THEN
        IF sec.extensions # <<>>
        THEN [calls   |-> << "find_files" >>,
              results |-> find_files(os, files_of_tree, Value(sec.extensions), None)]
        ELSE IF sec.files # <<>>
        THEN [calls   |-> << "find_files" >>,
              results |-> find_files(os, files_of_tree, None, Value(sec.files))]
        ELSE [calls |-> <<>>, results |-> <<>>]
    ELSE [calls |-> <<>>, results |-> <<>>]

\* line 151: the section header written to the report
SectionHeader(name) == <<"\n","=","=","="," ">> \o name \o <<" ","=","=","=">>

\* lines 157-164: the metadata written when verbose
Metadata(sec) ==
    << <<"C","o","m","m","a","n","d"," ","t","e","m","p","l","a","t","e",":"," ">> \o sec.command >>
    \o (IF sec.keywords # <<>>
        THEN << <<"K","e","y","w","o","r","d","s",":"," ">> \o join(<<","," ">>, sec.keywords) >> ELSE <<>>)
    \o (IF sec.extensions # <<>>
        THEN << <<"E","x","t","e","n","s","i","o","n","s",":"," ">> \o join(<<","," ">>, sec.extensions) >> ELSE <<>>)
    \o (IF sec.files # <<>>
        THEN << <<"F","i","l","e","s",":"," ">> \o join(<<","," ">>, sec.files) >> ELSE <<>>)

\* lines 186-194: what execute_section logs after the search
SearchOutput(v, res) ==
    (IF v THEN << <<"\n",">"," ","R","u","n","n","i","n","g"," ","s","e","a","r","c","h",".",".",".">> >> ELSE <<>>)
    \o (IF res # <<>> THEN res ELSE IF v THEN << <<"N","o"," ","m","a","t","c","h","e","s"," ","f","o","u","n","d">> >> ELSE <<>>)

-----------------------------------------------------------------------------
(* FileScanner.run and main *)

ConfigPath == <<"c">>
ReportName == <<"o",".","t">>      \* name of self.output_file
\* datetime.now().strftime('%Y-%m-%d %H:%M:%S') at line 276 and at line 299
StartedAt == clock[1]
CompletedAt == clock[2]
Rule == <<"=","=","=","=","=","=","=","=","=","=","=","=","=","=","=","=","=","=","=","=","=","=","=","=","=","=","=","=","=","=","=","=","=","=","=","=","=","=","=","=">>      \* "=" * 40

\* lines 274-277: the four writes of the header
ReportHeader(root) ==
    << <<"S","t","a","r","t","i","n","g"," ","s","e","a","r","c","h"," ","f","r","o","m",":"," ">> \o root, <<"C","o","n","f","i","g",":"," ">> \o ConfigPath,
       <<"S","t","a","r","t","e","d",":"," ">> \o StartedAt, Rule >>

\* lines 298-299: the two log calls of the footer
ReportFooter == << <<"\n">> \o Rule, <<"C","o","m","p","l","e","t","e","d",":"," ">> \o CompletedAt >>

\* the content of the report file: every write ends with "\n"
RECURSIVE ReportText(_)
ReportText(rep) ==
    IF rep = <<>> THEN <<>> ELSE rep[1] \o <<"\n">> \o ReportText(Tail(rep))

\* what os.walk yields when a search starts: the files of the tree and, when
\* they lie in the search root, the configuration file and the report as
\* written so far
Walk(t, root, cfg_at, cfg, rep_at, rep) ==
    LET entry(name, content) ==
            [root |-> root, name |-> name, content |-> content,
             open_fails |-> FALSE, read_fails_at |-> 0]
        insert(files, at, f) ==
            IF at = 0 THEN files
            ELSE SubSeq(files, 1, at - 1) \o << f >> \o SubSeq(files, at, Len(files))
    IN  insert(insert(t, cfg_at, entry(ConfigPath, cfg)), rep_at, entry(ReportName, ReportText(rep)))

SectionKeys == {"name", "command", "keywords", "extensions", "files"}

\* line 288 reads section['command']; lines 290-294 read the other keys
RaisesKeyError(sec) ==
    IF "command" \notin DOMAIN sec THEN TRUE
    ELSE sec.command # <<>> /\ DOMAIN sec # SectionKeys

\* variant of HasCommand that lets every section through
HasCommandAlways(sec) == TRUE

\* line 288: `if section['command']`
HasCommand(sec) == sec.command # <<>>

\* the positions of run at which main can still catch an exception
Running ==
    {"start", "header", "parse", "loop", "build", "meta", "output", "footer",
     "update", "write", "writing", "saved"}

\* the values fixed when the scanner is constructed
env == << config0, os_name, verbose, tree, search_root, clock, config_at, report_at >>

\* line 273: open(self.output_file, 'w') creates the report or empties the one
\* an earlier run left
OpenReport ==
    /\ pc = "start"
    /\ report' = <<>>
    /\ opened' = TRUE
    /\ pc' = "header"
    /\ UNCHANGED << env, config, sections, idx, section_examples, todo, searched,
                    walked, calls, results, temp_config, cfgWrites >>

\* lines 274-277: one f.write per step
WriteHeader ==
    /\ pc = "header"
    /\ LET n == Len(report) + 1
       IN  /\ report' = Append(report, ReportHeader(search_root)[n])
           /\ pc' = IF n = Len(ReportHeader(search_root)) THEN "parse" ELSE "header"
    /\ UNCHANGED << env, opened, config, sections, idx, section_examples, todo, searched,
                    walked, calls, results, temp_config, cfgWrites >>

\* line 286
ParseConfig ==
    /\ pc = "parse"
    /\ sections' = parse_config(config)
    /\ idx' = 0
    /\ pc' = "loop"
    /\ UNCHANGED << env, opened, config, section_examples, report, todo, searched,
                    walked, calls, results, temp_config, cfgWrites >>

\* lines 287-288: the loop takes a section with an empty command and moves on
SkipSection ==
    /\ pc = "loop" /\ idx < Len(sections)
    /\ ~RaisesKeyError(sections[idx + 1])
    /\ ~HasCommand(sections[idx + 1])
    /\ idx' = idx + 1
    /\ UNCHANGED << env, opened, config, pc, sections, section_examples, report, todo,
                    searched, walked, calls, results, temp_config, cfgWrites >>

\* a record parse_config built without a header lacks keys: run raises KeyError,
\* main prints the error and exits 1 (lines 385-387)
SectionKeyError ==
    /\ pc = "loop" /\ idx < Len(sections)
    /\ RaisesKeyError(sections[idx + 1])
    /\ idx' = idx + 1
    /\ pc' = "failed"
    /\ UNCHANGED << env, opened, config, sections, section_examples, report, todo,
                    searched, walked, calls, results, temp_config, cfgWrites >>

\* lines 287-295 and 151: the loop takes a section with a command, calls
\* execute_section, which logs the header
LogSectionHeader ==
    /\ pc = "loop" /\ idx < Len(sections)
    /\ ~RaisesKeyError(sections[idx + 1])
    /\ HasCommand(sections[idx + 1])
    /\ idx' = idx + 1
    /\ report' = Append(report, SectionHeader(sections[idx + 1].name))
    /\ searched' = FALSE
    /\ walked' = <<>>
    /\ calls' = <<>>
    /\ results' = <<>>
    /\ pc' = "build"
    /\ UNCHANGED << env, opened, config, sections, section_examples, todo, temp_config,
                    cfgWrites >>

\* variant of StoreExample that rewrites the configuration file as soon as the
\* section's command is resolved
StoreExampleFlush ==
    /\ pc = "build"
    /\ LET sec == sections[idx]
           cmd == build_actual_command(sec.command, sec.keywords, sec.extensions, sec.files)
       IN  /\ section_examples' = DictSet(section_examples, sec.name, StoredExample(cmd))
           /\ todo' = IF verbose THEN Metadata(sec) ELSE <<>>
    /\ config' = RewrittenText(RewrittenLines(config, section_examples'))
    /\ cfgWrites' = cfgWrites + 1
    /\ pc' = "meta"
    /\ UNCHANGED << env, opened, sections, idx, report, searched, walked, calls, results,
                    temp_config >>

\* lines 154-155
StoreExample ==
    /\ pc = "build"
    /\ LET sec == sections[idx]
           cmd == build_actual_command(sec.command, sec.keywords, sec.extensions, sec.files)
       IN  /\ section_examples' = DictSet(section_examples, sec.name, StoredExample(cmd))
           /\ todo' = IF verbose THEN Metadata(sec) ELSE <<>>
    /\ pc' = "meta"
    /\ UNCHANGED << env, opened, config, sections, idx, report, searched, walked, calls,
                    results, temp_config, cfgWrites >>

\* lines 157-164: one log call per step
LogMetadata ==
    /\ pc = "meta" /\ todo # <<>>
    /\ report' = Append(report, Head(todo))
    /\ todo' = Tail(todo)
    /\ UNCHANGED << env, opened, config, pc, sections, idx, section_examples, searched,
                    walked, calls, results, temp_config, cfgWrites >>

\* lines 166-184: the search; what it logs (lines 64-66) and what lines 186-194
\* will log is queued
Search ==
    /\ pc = "meta" /\ todo = <<>>
    /\ LET w   == Walk(tree, search_root, config_at, config, report_at, report)
           sec == sections[idx]
           d   == Dispatch(os_name, w, sec)
           out == (IF d.calls = << "grep_files" >>
                   THEN grep_log(os_name, w, join(<<"|">>, sec.keywords),
                                 IF sec.extensions # <<>> THEN Value(sec.extensions) ELSE None,
                                 verbose)
                   ELSE <<>>)
                  \o SearchOutput(verbose, d.results)
       IN  /\ walked' = w
           /\ calls' = d.calls
           /\ results' = d.results
           /\ todo' = out
           /\ pc' = IF out = <<>> THEN "loop" ELSE "output"
    /\ searched' = TRUE
    /\ UNCHANGED << env, opened, config, sections, idx, section_examples, report,
                    temp_config, cfgWrites >>

\* lines 187-194: one log call per step
LogResult ==
    /\ pc = "output"
    /\ report' = Append(report, Head(todo))
    /\ todo' = Tail(todo)
    /\ pc' = IF Tail(todo) = <<>> THEN "loop" ELSE "output"
    /\ UNCHANGED << env, opened, config, sections, idx, section_examples, searched,
                    walked, calls, results, temp_config, cfgWrites >>

\* line 298
FooterRule ==
    /\ pc = "loop" /\ idx = Len(sections)
    /\ report' = Append(report, ReportFooter[1])
    /\ pc' = "footer"
    /\ UNCHANGED << env, opened, config, sections, idx, section_examples, todo, searched,
                    walked, calls, results, temp_config, cfgWrites >>

\* line 299
FooterCompleted ==
    /\ pc = "footer"
    /\ report' = Append(report, ReportFooter[2])
    /\ pc' = "update"
    /\ UNCHANGED << env, opened, config, sections, idx, section_examples, todo, searched,
                    walked, calls, results, temp_config, cfgWrites >>

\* update_config_file, lines 246-261: the read loop
UpdateRead ==
    /\ pc = "update"
    /\ temp_config' = RewrittenLines(config, section_examples)
    /\ pc' = "write"
    /\ UNCHANGED << env, opened, config, sections, idx, section_examples, report, todo,
                    searched, walked, calls, results, cfgWrites >>

\* line 264: open(self.config_file, 'w') truncates the file
UpdateOpen ==
    /\ pc = "write"
    /\ config' = <<>>
    /\ cfgWrites' = cfgWrites + 1
    /\ pc' = "writing"
    /\ UNCHANGED << env, opened, sections, idx, section_examples, report, todo, searched,
                    walked, calls, results, temp_config >>

\* line 265
UpdateWrite ==
    /\ pc = "writing"
    /\ config' = RewrittenText(temp_config)
    /\ pc' = "saved"
    /\ UNCHANGED << env, opened, sections, idx, section_examples, report, todo, searched,
                    walked, calls, results, temp_config, cfgWrites >>

\* lines 304-307: the closing prints; run returns
Finish ==
    /\ pc = "saved"
    /\ pc' = "done"
    /\ UNCHANGED << env, opened, config, sections, idx, section_examples, report, todo,
                    searched, walked, calls, results, temp_config, cfgWrites >>

\* KeyboardInterrupt at any point of run: main prints and exits 1 (lines
\* 382-384); everything written so far stays as it is
Interrupt ==
    /\ pc \in Running
    /\ pc' = "interrupted"
    /\ UNCHANGED << env, opened, config, sections, idx, section_examples, report, todo,
                    searched, walked, calls, results, temp_config, cfgWrites >>

Next ==
    \/ OpenReport
    \/ WriteHeader
    \/ ParseConfig
    \/ SkipSection
    \/ SectionKeyError
    \/ LogSectionHeader
    \/ StoreExample
    \/ LogMetadata
    \/ Search
    \/ LogResult
    \/ FooterRule
    \/ FooterCompleted
    \/ UpdateRead
    \/ UpdateOpen
    \/ UpdateWrite
    \/ Finish
    \/ Interrupt

-----------------------------------------------------------------------------
(* Initial states: the scanner as main() constructs it (lines 373-378, 19-24) *)

MaxLines == 4
MaxFiles == 2

\* the lines configurations of Spec are made of
LinePool ==
    { <<"[","A","]","\n">>, <<"[","B","]","\n">>, <<"C","o","m","m","a","n","d",":"," ","g","r","e","p"," ","K","E","Y","W","O","R","D","S","\n">>, <<"E","x","a","m","p","l","e",":"," ","o","l","d","\n">>,
      <<"E","x","a","m","p","l","e",":"," ","\n">>, <<"K","e","y","w","o","r","d","s",":"," ","k"," ","\f","\n">>,
      <<"C","o","m","m","a","n","d",":"," ","f","i","n","d"," ","F","I","L","E","S"," ","-","e","x","e","c"," ","c","a","t","\n">>, <<"F","i","l","e","s",":"," ","*",".","t","\n">> }

\* the texts of 1..n lines of the pool
RECURSIVE Texts(_)
Texts(n) ==
    IF n = 1 THEN LinePool
    ELSE LET shorter == Texts(n - 1)
         IN  shorter \cup { l \o t : l \in LinePool, t \in shorter }

\* a file in directory d of the search root
File(os, top, d, name, content, open_fails, read_fails_at) ==
    [root |-> WalkRoot(os, top, d), name |-> name, content |-> content,
     open_fails |-> open_fails, read_fails_at |-> read_fails_at]

\* what the report file holds before the run: nothing, or an earlier report
OldReports == { <<>>, << <<"o","l","d">> >> }

RunTree == << File("posix", <<"r">>, <<>>, <<"a",".","t">>, <<"k","=","1","\n","x","\n">>, FALSE, 0) >>

\* the two readings of the clock during the runs below
Clock == << <<"2","0","2","6","-","1","0","-","2","9"," ","1","2",":","0","0",":","0","0">>, <<"2","0","2","6","-","1","0","-","2","9"," ","1","2",":","0","0",":","0","1">> >>

InitRun(cfg, os, v, top, t, cfg_at, at, old, clk) ==
    /\ config = cfg /\ config0 = cfg
    /\ clock = clk
    /\ os_name = os
    /\ verbose = v
    /\ search_root = top
    /\ tree = t
    /\ config_at = cfg_at
    /\ report_at = at
    /\ opened = FALSE
    /\ pc = "start"
    /\ sections = <<>>
    /\ idx = 0
    /\ section_examples = EmptyDict
    /\ report = old
    /\ todo = <<>>
    /\ searched = FALSE
    /\ walked = <<>>
    /\ calls = <<>>
    /\ results = <<>>
    /\ temp_config = <<>>
    /\ cfgWrites = 0

\* a section without a command, a content search that finds lines, and a
\* locate-and-dump section after it
SequelConfig ==
    <<"[","E","]","\n","[","A","]","\n","C","o","m","m","a","n","d",":"," ","g","r","e","p"," ","K","E","Y","W","O","R","D","S","\n","K","e","y","w","o","r","d","s",":"," ","k"," ","\f","\n">>
    \o <<"[","B","]","\n","C","o","m","m","a","n","d",":"," ","f","i","n","d"," ","F","I","L","E","S"," ","-","e","x","e","c"," ","c","a","t","\n","F","i","l","e","s",":"," ","*",".","t","\n">>

\* the quiet runs write their report outside the search root, the verbose
\* runs inside it
Init ==
    \E cfg \in Texts(MaxLines) \cup { SequelConfig }, v \in BOOLEAN, old \in OldReports :
        InitRun(cfg, "posix", v, <<"r">>, RunTree, 0, IF v THEN 1 ELSE 0, old, Clock)

Spec == Init /\ [][Next]_vars

-----------------------------------------------------------------------------
(* Vocabulary of the properties *)

\* the report entries that are section headers, as the names they carry
IsSectionHeader(m) == startswith(m, <<"\n","=","=","="," ">>) /\ endswith(m, <<" ","=","=","=">>)

RECURSIVE HeaderNames(_)
HeaderNames(rep) ==
    IF rep = <<>> THEN <<>>
    ELSE (IF IsSectionHeader(rep[1])
          THEN << SubSeq(rep[1], 6, Len(rep[1]) - 4) >> ELSE <<>>)
         \o HeaderNames(Tail(rep))

\* the names of the parsed records that carry a non-empty command, in order
RECURSIVE ExecNames(_)
ExecNames(secs) ==
    IF secs = <<>> THEN <<>>
    ELSE (IF "command" \in DOMAIN secs[1] /\ "name" \in DOMAIN secs[1]
          THEN (IF secs[1].command # <<>> THEN << secs[1].name >> ELSE <<>>)
          ELSE <<>>)
         \o ExecNames(Tail(secs))

Range(seq) == { seq[i] : i \in 1..Len(seq) }

FooterWritten == \E i \in 1..Len(report) : report[i] = ReportFooter[1]

\* the footer rule and what follows it in the report
FooterPart ==
    LET i == CHOOSE k \in 1..Len(report) :
                 report[k] = ReportFooter[1] /\ \A j \in 1..(k - 1) : report[j] # ReportFooter[1]
    IN  SubSeq(report, i, Len(report))

\* the sections the loop of run has taken
Processed == SubSeq(sections, 1, idx)

\* the sections the loop of run has left behind
Completed == SubSeq(sections, 1, idx - 1)

\* a line of the configuration text that is a [Name] header
IsHeaderLine(raw) == IsHeader(rstrip(raw))

\* the name of the header that most recently precedes line i (None before any)
RECURSIVE SectionOfLine(_, _)
SectionOfLine(lines, i) ==
    IF i = 0 THEN None
    ELSE IF IsHeaderLine(lines[i])
         THEN Value(SubSeq(rstrip(lines[i]), 2, Len(rstrip(lines[i])) - 1))
    ELSE SectionOfLine(lines, i - 1)

-----------------------------------------------------------------------------
\* C1: the configuration file is opened for writing at most once per run; as
\* long as it has not been, its content is the pre-run content (also in the
\* states an interrupt or an exception leaves behind); and it is written only
\* after the loop took every section, every section with a command was
\* executed, and both lines of the footer were appended to the report.
C1_ConfigWrittenOnceAtEnd ==
    /\ cfgWrites <= 1
    /\ cfgWrites = 0 => config = config0
    /\ cfgWrites = 1 =>
          /\ idx = Len(sections)
          /\ todo = <<>>
          /\ HeaderNames(report) = ExecNames(sections)
          /\ DOMAIN section_examples = Range(ExecNames(sections))
          /\ Len(report) >= 2
          /\ SubSeq(report, Len(report) - 1, Len(report)) = ReportFooter

\* a completed run that executed a section and rewrote the configuration
C1_Witness ==
    /\ pc = "done" /\ cfgWrites = 1
    /\ section_examples # EmptyDict
    /\ config # config0

\* C2 (as claimed): after the rewrite the configuration has as many lines as
\* before and differs only on Example: lines inside an executed section.
C2_OnlyExampleLinesChange ==
    pc = "done" =>
        LET old == FileLines(config0)
            new == FileLines(config)
        IN  /\ Len(new) = Len(old)
            /\ \A i \in 1..Len(old) :
                   i <= Len(new) /\ new[i] # old[i] =>
                       /\ startswith(old[i], <<"E","x","a","m","p","l","e",":">>)
                       /\ SectionOfLine(old, i) \in Range(ExecNames(sections))

\* C3 (as claimed): parse_config returns one record per [Name] header line,
\* in file order, whatever other lines the text holds.
C3_OneRecordPerHeader ==
    idx >= 1 =>
        LET lines   == FileLines(config0)
            headers == SelectSeq(lines, IsHeaderLine)
        IN  /\ Len(sections) = Len(headers)
            /\ \A i \in 1..Len(sections) :
                   /\ "name" \in DOMAIN sections[i]
                   /\ i <= Len(headers) =>
                          sections[i].name
                              = SubSeq(rstrip(headers[i]), 2, Len(rstrip(headers[i])) - 1)

\* C5 (as claimed): every `Example: ` line of a section a command was computed
\* for is replaced by `Example: <that command>`, also when its old value is
\* empty; the other `Example: ` lines are unchanged (compared here up to
\* trailing whitespace).
C5_ExampleLinesReplaced ==
    pc = "done" =>
        LET old == FileLines(config0)
            new == FileLines(config)
        IN  \A i \in 1..Len(old) :
                startswith(old[i], <<"E","x","a","m","p","l","e",":"," ">>) =>
                    /\ i <= Len(new)
                    /\ LET s == SectionOfLine(old, i) IN
                       IF ~s.none /\ s.value \in DOMAIN section_examples
                       THEN new[i] = <<"E","x","a","m","p","l","e",":"," ">> \o section_examples[s.value] \o <<"\n">>
                       ELSE rstrip(new[i]) = rstrip(old[i])

\* the sections among the first n that run executes
ExecutedUpTo(n) ==
    { i \in 1..n : DOMAIN sections[i] = SectionKeys /\ sections[i].command # <<>> }

\* the section whose header is the last one in the report
LastExecuted ==
    sections[CHOOSE i \in ExecutedUpTo(idx) : \A j \in ExecutedUpTo(idx) : j <= i]

\* the entries of the report after its last section header, the footer apart
SectionTail ==
    LET k == CHOOSE i \in 1..Len(report) :
                 /\ IsSectionHeader(report[i])
                 /\ \A j \in (i + 1)..Len(report) : ~IsSectionHeader(report[j])
        e == IF FooterWritten THEN Len(report) - Len(FooterPart) ELSE Len(report)
    IN  SubSeq(report, k + 1, e)

\* all that execute_section logs for a section after its header, given what
\* its search found
SectionOutput(sec) ==
    (IF verbose THEN Metadata(sec) ELSE <<>>)
    \o (IF calls = << "grep_files" >>
        THEN grep_log(os_name, walked, join(<<"|">>, sec.keywords),
                      IF sec.extensions # <<>> THEN Value(sec.extensions) ELSE None, verbose)
        ELSE <<>>)
    \o SearchOutput(verbose, results)

\* the state part and the step part of C6
C6_Inv ==
    LET names  == HeaderNames(report)
        footer == FooterWritten
    IN  /\ opened =>
               \A i \in 1..Len(ReportHeader(search_root)) :
                   i <= Len(report) => report[i] = ReportHeader(search_root)[i]
        /\ idx >= 1 => opened /\ Len(report) >= Len(ReportHeader(search_root))
        /\ opened => names = ExecNames(Processed)
        /\ Range(ExecNames(Completed)) \subseteq DOMAIN section_examples
        /\ DOMAIN section_examples \subseteq Range(ExecNames(Processed))
        /\ opened /\ names # <<>> =>
              IF searched
              THEN SectionTail \o todo = SectionOutput(LastExecuted)
              ELSE SectionTail \o todo
                       \in { <<>>, IF verbose THEN Metadata(LastExecuted) ELSE <<>> }
        /\ opened /\ footer =>
              /\ idx = Len(sections)
              /\ todo = <<>>
              /\ ExecNames(sections) # <<>> => searched
              /\ DOMAIN section_examples = Range(names)
              /\ FooterPart \in { SubSeq(ReportFooter, 1, 1), ReportFooter }
        /\ pc \in {"update", "write", "writing", "saved", "done"} =>
              opened /\ footer /\ FooterPart = ReportFooter

\* a section header is appended only when the section before it has searched
\* and logged all it had to log
C6_HeaderStep ==
    opened /\ Len(report') > Len(report) /\ IsSectionHeader(report'[Len(report')]) =>
        /\ todo = <<>>
        /\ HeaderNames(report) # <<>> => searched
        /\ report' = Append(report, SectionHeader(sections[idx'].name))

\* once run has opened the report, it only grows
C6_AppendOnly ==
    opened =>
        /\ Len(report') >= Len(report)
        /\ SubSeq(report', 1, Len(report)) = report

\* C6: the report starts with the header lines; its section headers are the
\* names of the sections with a non-empty command the loop has taken, in
\* configuration order (so a section without a command adds no header, and no
\* resolved command either); what follows the last section header is, with
\* what is still to be logged, exactly the output of that section, and the
\* next header is appended only when nothing is left to be logged, so that all
\* output of a section precedes the header of the next; the footer is begun
\* only after the last section has logged all its output, and nothing but the
\* footer follows its first line; the report only grows.
C6_ReportOrder == [](C6_Inv) /\ [][C6_AppendOnly /\ C6_HeaderStep]_vars

\* a completed run over a section without a command, a section whose search
\* produced results, logged before the header of the section after it, and
\* that section, which produced results too
C6_Witness ==
    /\ pc = "done"
    /\ Len(sections) = 3
    /\ Len(HeaderNames(report)) = 2
    /\ \E i, j \in 1..Len(report) :
           /\ IsSectionHeader(report[i]) /\ IsSectionHeader(report[j])
           /\ i + 1 < j
           /\ \A k \in (i + 1)..(j - 1) : ~IsSectionHeader(report[k])
    /\ results # <<>>

-----------------------------------------------------------------------------
(* Initial states of SpecScan: one section [A] drawn from the pools below,
   followed by a fixed section [B], over file trees with failing files *)

TemplatePool ==
    { <<"g","r","e","p"," ","K","E","Y","W","O","R","D","S"," ","E","X","T","E","N","S","I","O","N","S">>,
      <<"f","i","n","d"," ","E","X","T","E","N","S","I","O","N","S"," ","-","e","x","e","c"," ","c","a","t"," ","|"," ","g","r","e","p"," ","K","E","Y","W","O","R","D","S">>,
      <<"f","i","n","d"," ","F","I","L","E","S"," ","-","e","x","e","c"," ","c","a","t">>,
      <<"f","i","n","d"," ","E","X","T","E","N","S","I","O","N","S"," ","F","I","L","E","S">>,
      <<"f","i","n","d"," ","E","X","T","E","N","S","I","O","N","S"," ","K","E","Y","W","O","R","D","S">>,
      <<"l","s"," ","-","e","x","e","c"," ","c","a","t"," ","F","I","L","E","S">>,
      <<"l","s"," ","E","X","T","E","N","S","I","O","N","S"," ","K","E","Y","W","O","R","D","S">> }

KeywordsPool   == { <<>>, <<"p","w">>, <<"g","r","e","p">>, <<"P",".","=","\\","d">>, <<"p","w",","," ","*">> }
ExtensionsPool == { <<>>, <<"*",".","t">> }
FilesPool      == { <<>>, <<"a","*",","," ","*",".","t">>, <<"*","P","A","S","S","W","O","R","D","*">> }

KeyLine(key, value) == IF value = <<>> THEN <<>> ELSE key \o value \o <<"\n">>

SectionText(name, template, kw, ex, fi) ==
    <<"[">> \o name \o <<"]","\n">>
    \o <<"C","o","m","m","a","n","d",":"," ">> \o template \o <<"\n">>
    \o <<"E","x","a","m","p","l","e",":"," ","o","l","d","\n">>
    \o KeyLine(<<"K","e","y","w","o","r","d","s",":"," ">>, kw)
    \o KeyLine(<<"E","x","t","e","n","s","i","o","n","s",":"," ">>, ex)
    \o KeyLine(<<"F","i","l","e","s",":"," ">>, fi)

SectionB == SectionText(<<"B">>, <<"f","i","n","d"," ","E","X","T","E","N","S","I","O","N","S">>, <<>>, <<"*",".","t">>, <<>>)

\* a configuration whose first key line precedes every header
HeaderlessConfig == <<"K","e","y","w","o","r","d","s",":"," ","k","\n">> \o SectionB

\* a configuration whose first section has no Command line
NoCommandConfig == <<"#"," ","c","\n","[","E","]","\n","K","e","y","w","o","r","d","s",":"," ","k","\n">> \o SectionB

ClassifyConfigs ==
    { SectionText(<<"A">>, t, kw, ex, fi) \o SectionB :
          t \in TemplatePool, kw \in KeywordsPool, ex \in ExtensionsPool, fi \in FilesPool }
    \cup { HeaderlessConfig, NoCommandConfig }

ClassifyTree ==
    << File("posix", <<"r">>, <<>>, <<"a",".","t">>, <<"p","w","=","1","\n","x","\n">>, FALSE, 0),
       File("posix", <<"r">>, <<>>, <<"m","y","_","P","a","s","s","w","o","r","d",".","t","x","t">>, <<"k","\n">>, FALSE, 0) >>

ScanConfigs ==
    { SectionText(<<"A">>, <<"g","r","e","p"," ","K","E","Y","W","O","R","D","S"," ","E","X","T","E","N","S","I","O","N","S">>, <<"p","w",","," ",":","\\","d","\\","d","$">>, <<>>, <<>>) \o SectionB,
      SectionText(<<"A">>, <<"g","r","e","p"," ","K","E","Y","W","O","R","D","S"," ","E","X","T","E","N","S","I","O","N","S">>, <<"p","w">>, <<"*",".","t">>, <<>>) \o SectionB,
      SectionText(<<"A">>, <<"f","i","n","d"," ","F","I","L","E","S"," ","-","e","x","e","c"," ","c","a","t">>, <<>>, <<>>, <<"a","*",","," ","*",".","t">>) \o SectionB,
      SectionText(<<"A">>, <<"f","i","n","d"," ","F","I","L","E","S"," ","-","e","x","e","c"," ","c","a","t">>, <<>>, <<"*",".","t">>, <<>>) \o SectionB,
      SectionText(<<"A">>, <<"f","i","n","d"," ","E","X","T","E","N","S","I","O","N","S"," ","F","I","L","E","S">>, <<>>, <<>>, <<"a","*",","," ","*",".","t">>) \o SectionB,
      SectionText(<<"A">>, <<"f","i","n","d"," ","E","X","T","E","N","S","I","O","N","S"," ","F","I","L","E","S">>, <<>>, <<>>, <<"*","P","A","S","S","W","O","R","D","*">>) \o SectionB }

\* the files trees are made of: three names, one of them in a subdirectory,
\* each healthy, failing at open, or failing when its second line is read
NamePool ==
    { << <<>>, <<"a",".","t">>, <<"p","w","=","1","\n","x","\n","P","W","\n">> >>,
      << <<"s","u","b">>, <<"b",".","t">>, <<" ","\f"," ","\n">> >>,
      << <<>>, <<"m","y","_","P","a","s","s","w","o","r","d",".","t","x","t">>, <<"P","w","\n","q","\n">> >> }

FailurePool == { << FALSE, 0 >>, << TRUE, 0 >>, << FALSE, 2 >> }

FilePool(os, top) ==
    { File(os, top, n[1], n[2], n[3], m[1], m[2]) : n \in NamePool, m \in FailurePool }

\* os.walk yields the files of the search root itself first and the files of
\* one directory next to each other
InTop(os, top, f) == f.root = WalkRoot(os, top, <<>>)

WalkOrder(os, top, t) ==
    /\ \A i, j \in 1..Len(t) : i < j /\ InTop(os, top, t[j]) => InTop(os, top, t[i])
    /\ \A i, j, k \in 1..Len(t) :
           i < j /\ j < k /\ t[i].root = t[k].root => t[j].root = t[i].root

\* the number of files of t in the search root itself
TopCount(os, top, t) == Cardinality({ i \in 1..Len(t) : InTop(os, top, t[i]) })

\* the walks of at most n files, no file name twice
RECURSIVE Trees(_, _, _)
Trees(os, top, n) ==
    IF n = 0 THEN { <<>> }
    ELSE LET shorter == Trees(os, top, n - 1)
         IN  shorter \cup
             UNION { { Append(t, f) :
                           f \in { g \in FilePool(os, top) :
                                       /\ \A i \in 1..Len(t) : t[i].name # g.name
                                       /\ WalkOrder(os, top, Append(t, g)) } } :
                     t \in { u \in shorter : Len(u) = n - 1 } }

\* The configuration file is ./c: it lies in the search root when that is ".".
\* The report, when it lies in the search root, and the configuration file
\* take every place among the files of the search root itself.
InitScan ==
    \/ \E cfg \in ClassifyConfigs, v \in BOOLEAN, old \in OldReports :
           InitRun(cfg, "posix", v, <<"r">>, ClassifyTree, 0, 0, old, Clock)
    \/ \E cfg \in ScanConfigs, t \in Trees("posix", <<"r">>, MaxFiles) :
           \E at \in 0..(TopCount("posix", <<"r">>, t) + 1) :
               InitRun(cfg, "posix", FALSE, <<"r">>, t, 0, at, <<>>, Clock)
    \/ \E cfg \in ScanConfigs, t \in Trees("posix", <<".">>, MaxFiles) :
           \E cfg_at \in 1..(TopCount("posix", <<".">>, t) + 1),
              at \in 0..(TopCount("posix", <<".">>, t) + 2) :
               InitRun(cfg, "posix", FALSE, <<".">>, t, cfg_at, at, <<>>, Clock)
    \/ \E cfg \in ScanConfigs, t \in Trees("nt", <<"r">>, MaxFiles) :
           InitRun(cfg, "nt", FALSE, <<"r">>, t, 0, 0, <<>>, Clock)

SpecScan == InitScan /\ [][Next]_vars

-----------------------------------------------------------------------------
(* Vocabulary of the properties about execute_section *)

\* the section the loop has taken last went through its search: `calls`,
\* `results` and `walked` are those of that search
Executed ==
    /\ searched
    /\ idx >= 1
    /\ DOMAIN sections[idx] = SectionKeys
    /\ sections[idx].command # <<>>

LastSection == sections[idx]

\* the four modes, by the precedence the specification gives
ModeOf(command) ==
    IF Contains(command, <<"g","r","e","p">>) THEN "content-search"
    ELSE IF Contains(command, <<"f","i","n","d">>) /\ Contains(command, <<"-","e","x","e","c"," ","c","a","t">>)
         THEN "locate-and-dump"
    ELSE IF Contains(command, <<"f","i","n","d">>) THEN "locate"
    ELSE "none"

RoutineOf(mode) ==
    CASE mode = "content-search"  -> "grep_files"
      [] mode = "locate-and-dump" -> "find_and_cat_files"
      [] mode = "locate"          -> "find_files"
      [] OTHER                    -> "no routine"

Count(seq, x) == Cardinality({ i \in 1..Len(seq) : seq[i] = x })

MatchCount(os, name, patterns) ==
    Cardinality({ i \in 1..Len(patterns) : fnmatch(os, name, patterns[i]) })

-----------------------------------------------------------------------------
\* C4: execute_section calls at most one search routine, once, and it is the
\* routine of the mode the template selects by the precedence content-search
\* (grep) > locate-and-dump (find and -exec cat) > locate (find) > none; with
\* no marker nothing is searched and the result set is empty.
C4_ModePrecedence ==
    Executed =>
        LET sec  == LastSection
            mode == ModeOf(sec.command)
        IN  /\ Len(calls) <= 1
            /\ calls # <<>> => calls[1] = RoutineOf(mode)
            /\ mode = "none" => calls = <<>> /\ results = <<>>
            /\ mode = "content-search" => (calls = <<>> <=> sec.keywords = <<>>)
            /\ mode = "locate-and-dump" => calls # <<>>
            /\ mode = "locate" =>
                   (calls = <<>> <=> sec.extensions = <<>> /\ sec.files = <<>>)

\* a template with all three markers was run as a content search
C4_Witness ==
    /\ Executed
    /\ Contains(LastSection.command, <<"g","r","e","p">>)
    /\ Contains(LastSection.command, <<"f","i","n","d">>)
    /\ Contains(LastSection.command, <<"-","e","x","e","c"," ","c","a","t">>)
    /\ calls = << "grep_files" >>
    /\ results # <<>>

\* the files of a walk whose open and reads succeed
HealthyFiles(files) ==
    SelectSeq(files, LAMBDA f : ~f.open_fails /\ f.read_fails_at = 0)

\* C7 (as claimed): in content-search and locate-and-dump mode the results are
\* those of the same walk without the files whose open or read raises.
C7_FailingFileAbsent ==
    Executed /\ ModeOf(LastSection.command) \in {"content-search", "locate-and-dump"} =>
        results = Dispatch(os_name, HealthyFiles(walked), LastSection).results

\* a walk as it is read: a file that fails at open is absent; a file whose read
\* fails is cut before the failing line (content search) or absent (dump)
RECURSIVE FirstLines(_, _)
FirstLines(lines, n) ==
    IF n = 0 \/ lines = <<>> THEN <<>> ELSE lines[1] \o FirstLines(Tail(lines), n - 1)

RECURSIVE AsRead(_, _)
AsRead(files, mode) ==
    IF files = <<>> THEN <<>>
    ELSE LET f == files[1] IN
         (IF f.open_fails THEN <<>>
          ELSE IF f.read_fails_at = 0 THEN << f >>
          ELSE IF mode = "content-search"
               THEN << [f EXCEPT !.read_fails_at = 0,
                                 !.content = FirstLines(FileLines(f.content),
                                                        f.read_fails_at - 1)] >>
          ELSE <<>>)
         \o AsRead(Tail(files), mode)

\* C7 (amended): a file whose open raises contributes nothing; a file whose
\* read raises contributes nothing in locate-and-dump mode and, in
\* content-search mode, the matches of the lines read before the error; every
\* other file contributes what it does without the failing file; and the run
\* goes on: it fails only on a KeyError, and once complete it has executed
\* every section with a command and rewritten the configuration.
C7_FailingFileSkipped ==
    /\ Executed /\ ModeOf(LastSection.command) \in {"content-search", "locate-and-dump"} =>
           results = Dispatch(os_name, AsRead(walked, ModeOf(LastSection.command)),
                              LastSection).results
    /\ pc = "failed" => idx >= 1 /\ DOMAIN sections[idx] # SectionKeys
    /\ pc = "done" => HeaderNames(report) = ExecNames(sections) /\ cfgWrites = 1

\* a content search over a file whose read failed after a matching line,
\* followed by a healthy file whose matches were reported
C7_Witness ==
    /\ Executed /\ ModeOf(LastSection.command) = "content-search"
    /\ Len(walked) = 2
    /\ walked[1].read_fails_at = 2 /\ ~walked[1].open_fails
    /\ walked[2].read_fails_at = 0 /\ ~walked[2].open_fails
    /\ \E i \in 1..Len(results) : startswith(results[i], FilePath(os_name, walked[1]))
    /\ \E i \in 1..Len(results) : startswith(results[i], FilePath(os_name, walked[2]))

\* the last section ran in locate mode on its `files` patterns
LocateByFiles ==
    /\ Executed
    /\ ModeOf(LastSection.command) = "locate"
    /\ LastSection.extensions = <<>>
    /\ LastSection.files # <<>>

\* C8 (as claimed): locate mode with no extensions: a file appears in the
\* results once per `files` pattern its name matches.
C8_OncePerPattern ==
    LocateByFiles =>
        \A i \in 1..Len(walked) :
            Count(results, FilePath(os_name, walked[i]))
                = MatchCount(os_name, walked[i].name, LastSection.files)

\* C8 (amended): a file appears once when its name matches at least one
\* `files` pattern, whatever the number of patterns it matches, and not at all
\* when it matches none.
C8_OncePerFile ==
    LocateByFiles =>
        \A i \in 1..Len(walked) :
            Count(results, FilePath(os_name, walked[i]))
                = (IF MatchCount(os_name, walked[i].name, LastSection.files) >= 1
                   THEN 1 ELSE 0)

\* a file whose name matches two patterns, and one that matches none
C8_Witness ==
    /\ LocateByFiles
    /\ \E i \in 1..Len(walked) :
           /\ MatchCount(os_name, walked[i].name, LastSection.files) = 2
           /\ Count(results, FilePath(os_name, walked[i])) = 1
    /\ \E i \in 1..Len(walked) :
           MatchCount(os_name, walked[i].name, LastSection.files) = 0

\* some pattern matches the name, letter case ignored
GlobIgnoringCase(name, patterns) ==
    \E i \in 1..Len(patterns) : fnmatchcase(lower(name), lower(patterns[i]))

\* C9 (as claimed): the name filter accepts a file under a pattern iff the
\* lower-cased name matches the lower-cased pattern as a glob, in locate mode
\* (the paths returned) and in content-search mode (the files searched).
C9_GlobIgnoresCase ==
    Executed =>
        LET sec  == LastSection
            mode == ModeOf(sec.command)
            pats == IF sec.extensions # <<>> THEN sec.extensions ELSE sec.files
        IN  /\ mode = "locate" /\ pats # <<>> =>
                \A i \in 1..Len(walked) :
                    Count(results, FilePath(os_name, walked[i])) >= 1
                        <=> GlobIgnoringCase(walked[i].name, pats)
            /\ mode = "content-search" /\ sec.keywords # <<>> /\ sec.extensions # <<>>
               /\ CompileError(join(<<"|">>, sec.keywords)) = <<>> =>
                \A i \in 1..Len(walked) :
                    GrepFile(os_name, walked[i], join(<<"|">>, sec.keywords)) # <<>> =>
                        ((\E k \in 1..Len(results) :
                              startswith(results[k], FilePath(os_name, walked[i]) \o <<":">>))
                         <=> GlobIgnoringCase(walked[i].name, sec.extensions))

\* C10 (as claimed): when EXTENSIONS is substituted, the resolved command holds
\* the --include style iff the section runs as a content search, and the
\* \( -name ... \) style iff it runs in locate or locate-and-dump mode.
C10_StyleMatchesMode ==
    Executed =>
        LET sec  == LastSection
            mode == ModeOf(sec.command)
            cmd  == section_examples[sec.name]
        IN  sec.extensions # <<>> /\ Contains(sec.command, <<"E","X","T","E","N","S","I","O","N","S">>) =>
                /\ Contains(cmd, IncludeFlags(sec.extensions))
                       <=> mode = "content-search"
                /\ Contains(cmd, NameFlags(sec.extensions))
                       <=> mode \in {"locate", "locate-and-dump"}

====
